---- MODULE Spec2Model ----
(***************************************************************************)
(* State-machine model of the t-SNE widget (OWtSNE, widgets/owtsne.py),    *)
(* of the helper get_unique_names of the same file, and of the part of the *)
(* marker-genes widget that tests/test_owmarkergenes.py exercises.         *)
(*                                                                         *)
(* Python objects are records.  None is the record [none |-> TRUE], so     *)
(* that an optional field can always be compared with it.  Strings that    *)
(* the code formats or matches (variable names) are sequences of           *)
(* one-character strings; rows are numbered from 1.                        *)
(***************************************************************************)
EXTENDS Integers, Sequences, FiniteSets, TLC

VARIABLES
    self,          \* the OWtSNE object: its fields, timer and plot graph
    Outputs,       \* the value last sent on each output channel
    Inputs,        \* the size of the table last received on input Data
    sends,         \* number of times the last handler sent the outputs
    closed,        \* identities of the update-loop generators closed so far
    created,       \* number of update-loop generators created so far
    last,          \* the handler that ran last (and how its step ended)
    un_names,      \* get_unique_names: the argument names
    un_proposed,   \* get_unique_names: the argument proposed
    un_result,     \* get_unique_names: the returned list, None before the call
    mg,            \* the OWMarkerGenes object
    mg_genes,      \* the value last sent on the marker-genes output "Genes"
    mg_last        \* the marker-genes operation that ran last

vars == <<self, Outputs, Inputs, sends, closed, created, last,
          un_names, un_proposed, un_result, mg, mg_genes, mg_last>>

None == [none |-> TRUE]

Range(s) == {s[i] : i \in 1..Len(s)}

min(a, b) == IF a <= b THEN a ELSE b

(***************************************************************************)
(* Bounds of the model.                                                    *)
(***************************************************************************)
\* largest number of rows of an input table
MaxRows == 2
\* number of optimization runs (update-loop generators) created in a behaviour
MaxRuns == 2
\* longest list names handed to get_unique_names
MaxNames == 2
\* longest list proposed handed to get_unique_names
MaxProposed == 2
\* largest number of rows of a marker-genes source table
MaxMarkerRows == 3

(***************************************************************************)
(* Strings.                                                                *)
(***************************************************************************)
Digits == <<"0", "1", "2", "3", "4", "5", "6", "7", "8", "9">>

IsDigit(c) == \E d \in 1..10 : Digits[d] = c

DigitVal(c) == (CHOOSE d \in 1..10 : Digits[d] = c) - 1

\* int(s) for a string of decimal digits
RECURSIVE int(_)
int(s) ==
    IF s = <<>> THEN 0
    ELSE 10 * int(SubSeq(s, 1, Len(s) - 1)) + DigitVal(s[Len(s)])

\* str(n) for an integer n >= 0
RECURSIVE str(_)
str(n) ==
    IF n < 10 THEN <<Digits[n + 1]>>
    ELSE Append(str(n \div 10), Digits[(n % 10) + 1])

\* "{} ({})".format(name, index)
format(name, index) == name \o <<" ", "(">> \o str(index) \o <<")">>

tsne_x == <<"t", "s", "n", "e", "-", "x">>
tsne_y == <<"t", "s", "n", "e", "-", "y">>

(***************************************************************************)
(* get_indices and get_unique_names.                                       *)
(*                                                                         *)
(* RE_FIND_INDEX.format(name) is the pattern (^name \()(\d{1,})(\)$) with  *)
(* name inserted as it is, not escaped.  The pattern language modelled is: *)
(* a character other than "." and "$" matches itself, "." matches any      *)
(* character, and "$" matches only at the end of the string (so a pattern  *)
(* that goes on after it matches nothing).  Names handed in as `name` are  *)
(* drawn without the other special characters of the pattern language.     *)
(***************************************************************************)
\* whether re.finditer(RE_FIND_INDEX.format(name), x) yields a match; the
\* pattern is anchored at both ends, so there is at most one
re_match(name, x) ==
    LET n == Len(name)
    IN /\ \A i \in 1..n : name[i] # "$"
       /\ Len(x) >= n + 4
       /\ \A i \in 1..n : name[i] = "." \/ name[i] = x[i]
       /\ x[n + 1] = " "
       /\ x[n + 2] = "("
       /\ \A i \in (n + 3)..(Len(x) - 1) : IsDigit(x[i])
       /\ x[Len(x)] = ")"

\* group(2) of the match
re_group2(name, x) == SubSeq(x, Len(name) + 3, Len(x) - 1)

get_indices(names, name) ==
    LET F[i \in 0..Len(names)] ==
            IF i = 0 THEN <<>>
            ELSE IF re_match(name, names[i])
                 THEN Append(F[i - 1], int(re_group2(name, names[i])))
                 ELSE F[i - 1]
    IN F[Len(names)]

\* max(list, default=default)
max(list, default) ==
    IF list = <<>> THEN default
    ELSE CHOOSE m \in Range(list) : \A k \in Range(list) : k <= m

get_unique_names(names, proposed) ==
    IF \E i \in 1..Len(proposed) : proposed[i] \in Range(names)
    THEN LET max_index ==
                 max([i \in 1..Len(proposed) |->
                          max(get_indices(names, proposed[i]), 1)], 1)
         IN [i \in 1..Len(proposed) |-> format(proposed[i], max_index + 1)]
    ELSE proposed

(***************************************************************************)
(* Tables.  A table is [rows, domain]: rows is its length and domain holds *)
(* the names of its attributes and class variables and its metas, each     *)
(* meta with its is_primitive() flag.  Row i of an input table stands for  *)
(* itself; a row of an output table names the input row it was made from.  *)
(***************************************************************************)
Domain(attributes, class_vars, metas) ==
    [attributes |-> attributes, class_vars |-> class_vars, metas |-> metas]

ContinuousVariable(name) == [name |-> name, is_primitive |-> TRUE]

StringVariable(name) == [name |-> name, is_primitive |-> FALSE]

gene == ContinuousVariable(<<"g">>)
cell == StringVariable(<<"c">>)

InputDomains ==
    {Domain(<<>>, <<>>, <<>>),
     Domain(<<gene>>, <<>>, <<cell>>),
     Domain(<<ContinuousVariable(tsne_x)>>, <<>>, <<>>)}

InputTables ==
    {[rows |-> n, domain |-> d] : n \in 0..MaxRows, d \in InputDomains}

SubsetTables == {[ids |-> {1}]}

\* [v.name for v in domain]: iterating a Domain goes through its variables,
\* the attributes and the class variables
DomainNames(domain) ==
    LET variables == domain.attributes \o domain.class_vars
    IN [i \in 1..Len(variables) |-> variables[i].name]

\* Orange.projection.PCA fitted on and applied to data: a table of as many rows
PCA(data) == [rows |-> data.rows]

\* the embedding_ of Orange.projection.TSNE(n_iter=n_iter) fitted on X, one
\* point per row of X; `call` tells the calls (and so their results) apart
TSNE(X, n_iter, call) ==
    [n_iter |-> n_iter, X |-> [i \in 1..X.rows |-> <<call, i>>]]

(***************************************************************************)
(* OWtSNE: constants and settings.                                         *)
(***************************************************************************)
RefreshRate ==
    << <<"Every iteration", 1>>,
       <<"Every 5 steps", 5>>,
       <<"Every 10 steps", 10>>,
       <<"Every 25 steps", 25>>,
       <<"Every 50 steps", 50>>,
       <<"None", -1>> >>

Running == 1
Finished == 2
Waiting == 3

\* max_iter: the default of the setting and the lower end of its spin box
max_iter_default == 1000
max_iter_minimum == 250
MaxIterValues == {max_iter_minimum, max_iter_default}

\* refresh_rate: the default of the setting, an index into RefreshRate
refresh_rate_default == 5

NoErrors ==
    [not_enough_rows |-> FALSE, no_attributes |-> FALSE,
     out_of_memory |-> FALSE, optimization_error |-> None]

\* what the TSNE call of one step of the update loop does: it returns, or it
\* raises MemoryError or some other exception with a text
TsneOutcomes ==
    {[raises |-> "no"], [raises |-> "MemoryError"],
     [raises |-> "Exception", text |-> "e1"],
     [raises |-> "Exception", text |-> "e2"]}

(***************************************************************************)
(* OWtSNE: methods.  A method is an operator from the widget before the    *)
(* call to the widget after it; the widget w is `self` together with the   *)
(* output channels and the bookkeeping of generators and sends.            *)
(***************************************************************************)
\* OWMDSGraph.new_data(data, new=new): new=True forgets the selection
graph_new_data(w, data, new) ==
    [w EXCEPT !.graph = [data |-> data,
                         selection |-> IF new THEN {} ELSE @.selection]]

\* graph.get_selection(): the selected row indices, ascending
get_selection(w) == w.graph.selection

_setup_plot(w, new) == graph_new_data(w, w.data, new)

_update_plot(w, new) ==
    IF w.embedding # None THEN _setup_plot(w, new)
    ELSE graph_new_data(w, None, TRUE)

\* table[selection]
SelectRows(table, selection) ==
    [table EXCEPT !.rows = SelectSeq(@, LAMBDA r : r.row \in selection)]

\* create_annotated_table(data, selected_indices)
create_annotated_table(data, selection) ==
    IF data = None THEN None
    ELSE [annotated |-> data, selected |-> selection]

\* selected, forgetting to index the output by the selection
selected_not_indexed(output, selection) ==
    IF output # None /\ Cardinality(selection) > 0 THEN output ELSE None

\* commit: the table sent as Selected Data
selected(output, selection) ==
    IF output # None /\ Cardinality(selection) > 0
    THEN SelectRows(output, selection)
    ELSE None

commit(w) ==
    LET names == get_unique_names(DomainNames(w.data.domain),
                                  <<tsne_x, tsne_y>>)
        embedding ==
            IF w.embedding # None
            THEN [domain |-> Domain(<<ContinuousVariable(names[1]),
                                      ContinuousVariable(names[2])>>,
                                    <<>>, <<>>),
                  X |-> w.embedding.X]
            ELSE None
        output ==
            IF w.embedding # None /\ w.data # None
            THEN [domain |-> Domain(w.data.domain.attributes,
                                    w.data.domain.class_vars,
                                    w.data.domain.metas
                                        \o embedding.domain.attributes),
                  rows |-> [i \in 1..w.data.rows |->
                               [row |-> i, metas_tail |-> embedding.X[i]]]]
            ELSE embedding
        selection == get_selection(w)
    IN [w EXCEPT !.Outputs =
                     [selected_data |-> selected(output, selection),
                      annotated_data |->
                          create_annotated_table(output, selection)],
                 !.sends = @ + 1]

\* gui.auto_commit(..., "auto_commit", ...) rebinds self.commit to a function
\* that commits when auto_commit is set and otherwise remembers that a commit
\* is due, and binds self.unconditional_commit to the commit itself
unconditional_commit(w) == [commit(w) EXCEPT !.dirty = FALSE]

self_commit(w) ==
    IF w.auto_commit THEN unconditional_commit(w)
    ELSE [w EXCEPT !.dirty = TRUE]

__set_update_loop(w, loop) ==
    LET w1 == IF w.__update_loop # None
              THEN [w EXCEPT !.closed = @ \cup {w.__update_loop.id},
                             !.__update_loop = None]
              ELSE w
    IN IF loop # None
       THEN [w1 EXCEPT !.__update_loop = loop,
                       !.blocking = TRUE,
                       !.runbutton = "Stop",
                       !.__state = Running,
                       !.__timer = TRUE]
       ELSE [w1 EXCEPT !.__update_loop = None,
                       !.blocking = FALSE,
                       !.runbutton = "Start",
                       !.__state = Finished,
                       !.__timer = FALSE]

\* _clear, leaving the update loop in place
_clear_keeps_loop(w) == [w EXCEPT !.__state = Waiting]

_clear(w) == [__set_update_loop(w, None) EXCEPT !.__state = Waiting]

_initialize(w) ==
    LET w1 == [_clear(w) EXCEPT !.Error = NoErrors,
                                !.data = None,
                                !.effective_matrix = None,
                                !.embedding = None]
    IN IF w1.signal_data = None THEN w1
       ELSE LET w2 == [w1 EXCEPT !.data = w1.signal_data]
            IN IF w2.data.domain.attributes # <<>>
               THEN [w2 EXCEPT !.effective_matrix = PCA(w2.data)]
               ELSE [w2 EXCEPT !.Error.no_attributes = TRUE]

\* step_size without the line that fixes it to -1
step_size_from_table(w) ==
    LET from_table == RefreshRate[w.refresh_rate + 1][2]
    IN IF from_table = -1 THEN w.max_iter ELSE from_table

\* the number of iterations per GUI update step that __start settles on
step_size(w) ==
    LET from_table == RefreshRate[w.refresh_rate + 1][2]
        fixed == -1
    IN IF fixed = -1 THEN w.max_iter ELSE fixed

\* the generator object update_loop(X, max_iter, step, embedding), not started
update_loop(id, X, max_iter, step, embedding) ==
    [id |-> id, X |-> X, max_iter |-> max_iter, step |-> step,
     iterations_done |-> 0, done |-> FALSE]

\* next(loop) where the TSNE call of the step does `tsne`: what is raised,
\* the generator afterwards and the value yielded
next(loop, tsne) ==
    IF loop.done THEN [raises |-> "StopIteration"]
    ELSE LET step_iter == min(loop.max_iter - loop.iterations_done, loop.step)
             iterations_done == loop.iterations_done + step_iter
         IN IF tsne.raises # "no" THEN tsne
            ELSE [raises |-> "no",
                  loop |-> [loop EXCEPT
                               !.iterations_done = iterations_done,
                               !.done = iterations_done >= loop.max_iter],
                  embedding |-> TSNE(loop.X, step_iter,
                                     <<loop.id, iterations_done>>)]

__start(w) ==
    __set_update_loop(
        [w EXCEPT !.created = @ + 1],
        update_loop(w.created + 1, w.effective_matrix, w.max_iter,
                    step_size(w), w.embedding))

start(w) ==
    IF w.__state = Running THEN w
    ELSE IF w.__state = Finished THEN __start(w)
    ELSE IF w.__state = Waiting /\ w.effective_matrix # None THEN __start(w)
    ELSE w

\* stop, marking the run Finished without closing its loop
stop_keeps_loop(w) ==
    IF w.__state = Running THEN [w EXCEPT !.__state = Finished] ELSE w

stop(w) ==
    IF w.__state = Running THEN __set_update_loop(w, None) ELSE w

_invalidate_output(w) == self_commit(w)

_toggle_run(w) ==
    IF w.__state = Running THEN _invalidate_output(stop(w))
    ELSE start(w)

\* on_StopIteration, committing through self.commit
on_StopIteration_auto(w) ==
    _update_plot(self_commit(__set_update_loop(w, None)), FALSE)

\* __next_step, the branch taken when next() raises StopIteration
on_StopIteration(w) ==
    _update_plot(unconditional_commit(__set_update_loop(w, None)), FALSE)

\* on_exception with `except Exception` tried before `except MemoryError`
on_exception_swapped(w, exc) ==
    __set_update_loop(
        [w EXCEPT !.Error.optimization_error =
                      [text |-> IF exc.raises = "Exception"
                                THEN exc.text ELSE ""]],
        None)

\* __next_step, the branches taken when next() raises anything else
on_exception(w, exc) ==
    IF exc.raises = "MemoryError"
    THEN __set_update_loop([w EXCEPT !.Error.out_of_memory = TRUE], None)
    ELSE __set_update_loop(
             [w EXCEPT !.Error.optimization_error = [text |-> exc.text]],
             None)

\* __next_step, the branch taken when next() yields
on_yield(w, r) ==
    [_update_plot([w EXCEPT !.__update_loop = r.loop,
                            !.embedding = r.embedding], FALSE)
        EXCEPT !.__timer = TRUE]

__next_step(w, tsne) ==
    IF w.__update_loop = None THEN w
    ELSE LET w1 == [w EXCEPT !.Error.out_of_memory = FALSE,
                             !.Error.optimization_error = None]
             r == next(w.__update_loop, tsne)
             w2 == IF r.raises = "StopIteration" THEN on_StopIteration(w1)
                   ELSE IF r.raises # "no" THEN on_exception(w1, r)
                   ELSE on_yield(w1, r)
         IN [w2 EXCEPT !.__in_next_step = FALSE]

set_data(w, data) ==
    LET small == data # None /\ data.rows < 2
        d == IF small THEN None ELSE data
        w1 == [w EXCEPT !.Error.not_enough_rows = small,
                        !.signal_data = d,
                        !._invalidated = TRUE]
    IN IF d # None
       THEN [w1 EXCEPT
                !._primitive_metas =
                    SelectSeq(d.domain.metas, LAMBDA a : a.is_primitive),
                !._data_metas =
                    [keys |-> {k \in 1..Len(d.domain.metas) :
                                   d.domain.metas[k].is_primitive}]]
       ELSE [w1 EXCEPT !._primitive_metas = <<>>, !._data_metas = None]

set_subset_data(w, subset_data) ==
    [w EXCEPT !.subset_data = subset_data, !._subset_mask = None]

handleNewSignals(w) ==
    LET w1 == IF w._invalidated
              THEN start(_initialize([w EXCEPT !._invalidated = FALSE]))
              ELSE w
        w2 == IF /\ w1._subset_mask = None
                 /\ w1.subset_data # None
                 /\ w1.data # None
              THEN [w1 EXCEPT !._subset_mask =
                       [in1d |-> w1.subset_data.ids \cap (1..w1.data.rows)]]
              ELSE w1
    IN unconditional_commit(_update_plot(w2, TRUE))

selection_changed(w) == self_commit(w)

\* the "Send selected automatically" check box that gui.auto_commit makes:
\* toggling it on commits when a commit is due
auto_commit_toggled(w) ==
    LET w1 == [w EXCEPT !.auto_commit = ~@]
    IN IF w1.auto_commit /\ w1.dirty THEN unconditional_commit(w1) ELSE w1

(***************************************************************************)
(* OWtSNE: the state after construction.                                   *)
(***************************************************************************)
\* the fields __init__ sets, before its closing call of _initialize, for
\* stored settings max_iter, refresh_rate and auto_commit
constructed(max_iter, refresh_rate, auto_commit) ==
    [data |-> None,
     subset_data |-> None,
     signal_data |-> None,
     _subset_mask |-> None,
     _invalidated |-> FALSE,
     effective_matrix |-> None,
     embedding |-> None,
     _primitive_metas |-> <<>>,
     _data_metas |-> None,
     __update_loop |-> None,
     __timer |-> FALSE,
     __state |-> Waiting,
     __in_next_step |-> FALSE,
     Error |-> NoErrors,
     blocking |-> FALSE,
     runbutton |-> "Run",
     max_iter |-> max_iter,
     refresh_rate |-> refresh_rate,
     auto_commit |-> auto_commit,
     dirty |-> FALSE,
     graph |-> [data |-> None, selection |-> {}]]

SelfFields == DOMAIN constructed(max_iter_default, refresh_rate_default, TRUE)

\* the widget as the methods see it
W == self @@ [Outputs |-> Outputs, sends |-> 0,
              closed |-> closed, created |-> created]

\* what `last` records of a call: the handler, the state it found, and for
\* __next_step the generator stepped (0 for none) and what next() raised
NoCall ==
    [op |-> "__init__", from |-> Waiting, raises |-> "", text |-> "",
     loop |-> 0]

Call(op) == [NoCall EXCEPT !.op = op, !.from = self.__state]

\* the widget constructed with the stored settings given
Constructed(max_iter, refresh_rate, auto_commit) ==
    /\ LET w == _initialize(constructed(max_iter, refresh_rate, auto_commit)
                            @@ [Outputs |-> None, sends |-> 0,
                                closed |-> {}, created |-> 0])
       IN self = [f \in SelfFields |-> w[f]]
    /\ Outputs = [selected_data |-> None, annotated_data |-> None]
    /\ Inputs = None
    /\ sends = 0
    /\ closed = {}
    /\ created = 0
    /\ last = NoCall

\* the default settings, but for auto_commit
InitWidget ==
    \E a \in BOOLEAN :
        Constructed(max_iter_default, refresh_rate_default, a)

\* any stored settings
InitSettings ==
    \E m \in MaxIterValues, r \in 0..(Len(RefreshRate) - 1), a \in BOOLEAN :
        Constructed(m, r, a)

IdleNames ==
    /\ un_names = <<>>
    /\ un_proposed = <<>>
    /\ un_result = None

IdleMarkers ==
    /\ mg = None
    /\ mg_genes = None
    /\ mg_last = None

(***************************************************************************)
(* OWtSNE: the events.                                                     *)
(***************************************************************************)
\* the widget w is what a handler leaves behind
Becomes(w, call) ==
    /\ w.created <= MaxRuns
    /\ self' = [f \in SelfFields |-> w[f]]
    /\ Outputs' = w.Outputs
    /\ sends' = w.sends
    /\ closed' = w.closed
    /\ created' = w.created
    /\ last' = call
    /\ UNCHANGED <<un_names, un_proposed, un_result, mg, mg_genes, mg_last>>

\* what is remembered of a table delivered on input Data
Delivered(data) ==
    IF data = None THEN None
    ELSE [rows |-> data.rows, attributes |-> Len(data.domain.attributes)]

\* The signal manager delivers new inputs by calling the handler of each
\* input that changed and then handleNewSignals, with no other event between.

\* input Data changes
Input_data ==
    \E data \in InputTables \cup {None} :
        /\ Becomes(handleNewSignals(set_data(W, data)), Call("set_data"))
        /\ Inputs' = Delivered(data)

\* input Data Subset changes
Input_data_subset ==
    \E subset_data \in SubsetTables \cup {None} :
        /\ Becomes(handleNewSignals(set_subset_data(W, subset_data)),
                   Call("set_subset_data"))
        /\ UNCHANGED Inputs

\* the Run button is pressed
Press_runbutton ==
    /\ Becomes(_toggle_run(W), Call("_toggle_run"))
    /\ UNCHANGED Inputs

\* stop() is called
Call_stop ==
    /\ Becomes(stop(W), Call("stop"))
    /\ UNCHANGED Inputs

\* the single-shot timer times out, or a timeout posted before the timer was
\* stopped is delivered: __next_step runs
Timeout ==
    /\ (self.__timer \/ self.__update_loop = None)
    /\ \E tsne \in TsneOutcomes :
           LET w == [W EXCEPT !.__timer = FALSE]
               r == next(w.__update_loop, tsne)
               call == IF w.__update_loop = None
                       THEN Call("__next_step")
                       ELSE [Call("__next_step") EXCEPT
                                !.raises = r.raises,
                                !.text = IF r.raises = "Exception"
                                         THEN r.text ELSE "",
                                !.loop = w.__update_loop.id]
           IN Becomes(__next_step(w, tsne), call)
    /\ UNCHANGED Inputs

\* the user changes the selection in the plot
Select ==
    /\ self.graph.data # None
    /\ \E selection \in SUBSET (1..self.graph.data.rows) :
           /\ selection # self.graph.selection
           /\ Becomes(selection_changed(
                          [W EXCEPT !.graph.selection = selection]),
                      Call("selection_changed"))
    /\ UNCHANGED Inputs

\* the user toggles "Send selected automatically"
Toggle_auto_commit ==
    /\ Becomes(auto_commit_toggled(W), Call("auto_commit_toggled"))
    /\ UNCHANGED Inputs

\* the user changes "Max iterations"
Spin_max_iter ==
    /\ \E max_iter \in MaxIterValues \ {self.max_iter} :
           Becomes([W EXCEPT !.max_iter = max_iter], Call("max_iter"))
    /\ UNCHANGED Inputs

Init == InitWidget /\ IdleNames /\ IdleMarkers

Next ==
    \/ Input_data
    \/ Input_data_subset
    \/ Press_runbutton
    \/ Call_stop
    \/ Timeout
    \/ Select
    \/ Toggle_auto_commit

Spec == Init /\ [][Next]_vars

(***************************************************************************)
(* The widget under any stored settings, with the events that start and    *)
(* drive a run and the one that changes max_iter.                          *)
(***************************************************************************)
InitAnySettings == InitSettings /\ IdleNames /\ IdleMarkers

NextRun ==
    \/ Input_data
    \/ Press_runbutton
    \/ Timeout
    \/ Spin_max_iter

SpecSettings == InitAnySettings /\ [][NextRun]_vars

(***************************************************************************)
(* Properties of OWtSNE.                                                   *)
(***************************************************************************)
\* what a step of the kind named leaves in `last`
Ran(op) == last'.op = op

\* the step ran __next_step on an installed update loop and next() did `raises`
Stepped(raises) ==
    /\ last'.op = "__next_step"
    /\ last'.loop # 0
    /\ last'.raises = raises

\* the run of the update loop that computed the embedding, 0 for no embedding
RunOf(embedding) ==
    IF embedding = None \/ embedding.X = <<>> THEN 0
    ELSE embedding.X[1][1][1]

\* C1: the optimization is interruptible.  stop() and _toggle_run, called
\* while the widget is Running, close the current update loop, stop the timer
\* and leave the state Finished; no step is ever executed on a loop that was
\* closed, so a closed loop never changes the embedding; and __next_step called
\* with no loop installed changes nothing.
C1_Step ==
    /\ (self.__state = Running /\ (Ran("stop") \/ Ran("_toggle_run")))
           => /\ self.__update_loop.id \in closed'
              /\ self'.__update_loop = None
              /\ ~self'.__timer
              /\ self'.__state = Finished
    /\ Ran("__next_step") /\ last'.loop # 0 => last'.loop \notin closed
    /\ self'.embedding # self.embedding /\ self'.embedding # None
           => /\ Ran("__next_step")
              /\ RunOf(self'.embedding) = last'.loop
              /\ last'.loop \notin closed
    /\ Ran("__next_step") /\ self.__update_loop = None
           => /\ self' = self
              /\ Outputs' = Outputs
              /\ sends' = 0

C1_Interruptible == [][C1_Step]_vars

\* C1 witness: stop() found the widget Running, before the run had installed
\* an embedding, and closed its loop
C1_Witness ==
    /\ last.op = "stop"
    /\ last.from = Running
    /\ self.__state = Finished
    /\ self.__update_loop = None
    /\ closed # {}
    /\ self.embedding = None

\* the step size the RefreshRate table assigns to refresh_rate: the table's
\* number, and max_iter for the entry "None"
TableStep(refresh_rate, max_iter) ==
    IF RefreshRate[refresh_rate + 1][2] = -1 THEN max_iter
    ELSE RefreshRate[refresh_rate + 1][2]

\* C2 as claimed: a run's number of iterations per GUI update step is the one
\* the RefreshRate table assigns to the refresh_rate setting, and with a step
\* smaller than max_iter an embedding is installed before the run's last step.
C2_StepFromTable ==
    self.__update_loop # None
        => LET loop == self.__update_loop
           IN /\ loop.step = TableStep(self.refresh_rate, loop.max_iter)
              /\ (loop.iterations_done > 0 /\ loop.step < loop.max_iter
                      => RunOf(self.embedding) = loop.id)

\* C2 as amended: whatever refresh_rate is, a run's number of iterations per
\* GUI update step is the max_iter it was started with, so the loop yields one
\* embedding, after max_iter iterations, and no intermediate one.
C2_StepIsMaxIter ==
    /\ self.__update_loop # None
           => LET loop == self.__update_loop
              IN /\ loop.step = loop.max_iter
                 /\ loop.iterations_done \in {0, loop.max_iter}
                 /\ loop.done <=> loop.iterations_done = loop.max_iter
                 /\ (last.op \in {"_toggle_run", "set_data"}
                         => loop.max_iter = self.max_iter)
    /\ self.embedding # None => self.embedding.n_iter \in MaxIterValues

\* C2 witness: refresh_rate says "Every iteration", max_iter is not the
\* default, and the first step of the run has done all of the iterations
C2_Witness ==
    /\ self.refresh_rate = 0
    /\ self.__update_loop # None
    /\ self.__update_loop.max_iter = max_iter_minimum
    /\ self.__update_loop.done
    /\ RunOf(self.embedding) = self.__update_loop.id

\* C3 as claimed: once set_data got a table of fewer than 2 rows and
\* handleNewSignals has run, the not_enough_rows error is active for as long
\* as that table is the input.
C3_NotEnoughRowsShown ==
    Inputs # None /\ Inputs.rows < 2 => self.Error.not_enough_rows

\* C4: when a handler has sent the outputs, Selected Data is None if the
\* embedding is None or nothing is selected; otherwise it holds the selected
\* rows of the input data, in their order, each with the embedding's point for
\* that row in its last two meta columns, under the input's domain with two
\* more metas.  With no embedding the annotated output is None too.
C4_SelectedData ==
    sends > 0 =>
        LET out == Outputs.selected_data
            selection == self.graph.selection
        IN /\ (self.embedding = None \/ selection = {}) <=> out = None
           /\ self.embedding = None => Outputs.annotated_data = None
           /\ out # None =>
                  /\ Len(out.rows) = Cardinality(selection)
                  /\ \A i \in 1..Len(out.rows) :
                         /\ out.rows[i].row \in selection
                         /\ out.rows[i].metas_tail
                                = self.embedding.X[out.rows[i].row]
                         /\ \A j \in 1..(i - 1) :
                                out.rows[j].row < out.rows[i].row
                  /\ out.domain.attributes = self.data.domain.attributes
                  /\ out.domain.class_vars = self.data.domain.class_vars
                  /\ Len(out.domain.metas)
                         = Len(self.data.domain.metas) + 2
                  /\ \A k \in 1..Len(self.data.domain.metas) :
                         out.domain.metas[k] = self.data.domain.metas[k]

\* C4 witness: the outputs were sent with one of two rows selected, from a
\* table that has a meta column of its own
C4_Witness ==
    /\ sends > 0
    /\ Outputs.selected_data # None
    /\ self.graph.selection = {2}
    /\ Len(Outputs.selected_data.domain.metas) = 3

\* what C8 says of a step that delivered input Data, but for no_attributes
C8_Delivered ==
    /\ self.__update_loop # None => self.__update_loop.id \in closed'
    /\ self'.embedding = None
    /\ sends' = 1
    /\ Outputs'.selected_data = None
    /\ Outputs'.annotated_data = None
    /\ self'.__state = Running
           <=> (Inputs' # None /\ Inputs'.rows >= 2 /\ Inputs'.attributes >= 1)
    /\ self'.__state = Running
           => /\ self'.__update_loop # None
              /\ self'.__update_loop.id \notin closed'
              /\ self'.__update_loop.iterations_done = 0
              /\ self'.effective_matrix # None
    /\ self'.__state # Running
           => /\ self'.__state = Waiting
              /\ self'.__update_loop = None
              /\ self'.effective_matrix = None

\* C8 as claimed: after handleNewSignals following set_data the previous loop
\* is closed, the embedding and the outputs sent are None, a run is Running
\* exactly when the input has at least 2 rows and an attribute, and otherwise
\* the widget is Waiting with no loop and no effective_matrix, with the
\* no_attributes error active when the table has no attributes.
C8_Step ==
    Ran("set_data")
        => /\ C8_Delivered
           /\ (Inputs' # None /\ Inputs'.attributes = 0
                   => self'.Error.no_attributes)

C8_NewInput == [][C8_Step]_vars

\* C8 as amended: the same, with the no_attributes error active when the
\* table has at least 2 rows and no attributes (a table of fewer than 2 rows
\* is handled as None, and no_attributes is then not active).
C8_StepAmended ==
    Ran("set_data")
        => /\ C8_Delivered
           /\ self'.Error.no_attributes
                  <=> (Inputs' # None /\ Inputs'.rows >= 2
                           /\ Inputs'.attributes = 0)

C8_NewInputAmended == [][C8_StepAmended]_vars

\* C8 witness: a new table arrived while a run on the previous one was still
\* Running; that run's loop was closed and a new run started
C8_Witness ==
    /\ last.op = "set_data"
    /\ last.from = Running
    /\ self.__state = Running
    /\ closed # {}
    /\ self.embedding = None

\* C9: when a step of the update loop raises MemoryError the out_of_memory
\* error is shown, and when it raises another exception optimization_error is
\* shown with the exception's text; either way the run ends (no loop, timer
\* stopped, Finished, not blocking), the embedding is the one from before the
\* step, and the step sends no outputs.
C9_Step ==
    /\ Stepped("MemoryError") => self'.Error.out_of_memory
    /\ Stepped("Exception")
           => self'.Error.optimization_error = [text |-> last'.text]
    /\ Stepped("MemoryError") \/ Stepped("Exception")
           => /\ self'.__update_loop = None
              /\ last'.loop \in closed'
              /\ ~self'.__timer
              /\ self'.__state = Finished
              /\ ~self'.blocking
              /\ self'.embedding = self.embedding
              /\ sends' = 0
              /\ Outputs' = Outputs

C9_StepFails == [][C9_Step]_vars

\* C9 witness: a step of a second run raised, and the embedding is still the
\* one the first run installed
C9_Witness ==
    /\ last.op = "__next_step"
    /\ last.raises = "Exception"
    /\ self.Error.optimization_error = [text |-> "e2"]
    /\ self.embedding # None
    /\ RunOf(self.embedding) # last.loop

\* C10: when the update loop is exhausted the widget becomes Finished, the
\* timer is stopped, and the outputs are sent exactly once whatever
\* auto_commit is; they carry the embedding the loop yielded last, which was
\* installed by the step before, while the widget was Running.
C10_Step ==
    Stepped("StopIteration")
        => /\ self.__state = Running
           /\ self'.__state = Finished
           /\ ~self'.__timer
           /\ self'.__update_loop = None
           /\ sends' = 1
           /\ self.embedding # None
           /\ self'.embedding = self.embedding
           /\ \A i \in 1..Len(self.embedding.X) :
                  self.embedding.X[i][1]
                      = <<self.__update_loop.id,
                          self.__update_loop.iterations_done>>
           /\ Outputs'.annotated_data # None
           /\ LET sent == Outputs'.annotated_data.annotated
              IN /\ Len(sent.rows) = Len(self.embedding.X)
                 /\ \A i \in 1..Len(sent.rows) :
                        /\ sent.rows[i].row = i
                        /\ sent.rows[i].metas_tail = self.embedding.X[i]

C10_RunCompletes == [][C10_Step]_vars

\* C10 witness: a run was exhausted with auto_commit off, and the outputs
\* were sent
C10_Witness ==
    /\ last.op = "__next_step"
    /\ last.raises = "StopIteration"
    /\ ~self.auto_commit
    /\ sends = 1
    /\ Outputs.annotated_data # None

(***************************************************************************)
(* get_unique_names on its own: the arguments are drawn from small pools   *)
(* of names, and the one event is the call.                                *)
(***************************************************************************)
\* name followed by an index written with the digits given
Indexed(name, digits) == name \o <<" ", "(">> \o digits \o <<")">>

name_x == <<"x">>
name_y == <<"y">>
name_dollar == <<"x", "$">>
name_dot == <<"a", ".", "b">>
name_dash == <<"a", "-", "b">>

ProposedPool == {name_x, name_y, name_dollar, name_dot}

NamePool ==
    ProposedPool
    \cup {Indexed(name_x, <<"0">>), Indexed(name_x, <<"1">>),
          Indexed(name_x, <<"2">>), Indexed(name_x, <<"9">>),
          Indexed(name_x, <<"0", "2">>), Indexed(name_y, <<"2">>),
          Indexed(name_dollar, <<"2">>), Indexed(name_dash, <<"3">>)}

\* the lists over S of length up to n
Lists(S, n) == UNION {[1..k -> S] : k \in 0..n}

InitNames ==
    /\ un_names \in Lists(NamePool, MaxNames)
    /\ un_proposed \in Lists(ProposedPool, MaxProposed)
    /\ un_result = None
    /\ Constructed(max_iter_default, refresh_rate_default, TRUE)
    /\ IdleMarkers

Call_get_unique_names ==
    /\ un_result = None
    /\ un_result' = [value |-> get_unique_names(un_names, un_proposed)]
    /\ UNCHANGED <<self, Outputs, Inputs, sends, closed, created, last,
                   un_names, un_proposed, mg, mg_genes, mg_last>>

NextNames == Call_get_unique_names

SpecNames == InitNames /\ [][NextNames]_vars

\* the largest i for which "q (i)" is in names for some proposed q, 1 for none
LargestIndex(names, proposed) ==
    LET I == {i \in 0..20 : \E q \in Range(proposed) :
                               format(q, i) \in Range(names)}
    IN IF I = {} THEN 1 ELSE CHOOSE m \in I : \A k \in I : k <= m

\* C5 as claimed, its first sentence: get_unique_names(names, proposed)
\* returns unique names, that is, for every names and proposed no returned
\* name occurs in names.
C5_UniqueNames ==
    un_result # None
        => \A i \in 1..Len(un_result.value) :
               un_result.value[i] \notin Range(un_names)

\* The second sentence of C5: proposed comes back unchanged when none of it
\* occurs in names, and otherwise every p comes back as "p (k+1)" for the
\* largest index k used in names with a proposed name.  (It fails too: the
\* pattern reads "a.b" as matching "a-b (3)", it reads "x (02)" as index 2,
\* and the default 1 of a proposed name without an index outweighs an index
\* 0 of another.)
C5_Form ==
    un_result # None
        => IF Range(un_proposed) \cap Range(un_names) = {}
           THEN un_result.value = un_proposed
           ELSE un_result.value
                    = [i \in 1..Len(un_proposed) |->
                          format(un_proposed[i],
                                 LargestIndex(un_names, un_proposed) + 1)]

(***************************************************************************)
(* OWMarkerGenes, as far as tests/test_owmarkergenes.py describes it: the  *)
(* widget keeps a source table whose first meta column names the group of  *)
(* each row, lists the groups in the combo box group_cb, shows the rows of  *)
(* the group at group_index, and sends the selected ones as Genes.         *)
(* A source table is [attributes, metas, groupcol]: the names of its       *)
(* columns and, row by row, the value of its first meta column (the row    *)
(* numbers, when it has none).                                             *)
(***************************************************************************)
GroupValues == <<"A", "B">>

MarkerTables ==
    UNION {{[attributes |-> <<>>, metas |-> <<"Group">>, groupcol |-> g] :
                g \in [1..n -> Range(GroupValues)]}
           \cup {[attributes |-> <<"test">>, metas |-> <<>>,
                  groupcol |-> [i \in 1..n |-> i]]} :
           n \in 1..MaxMarkerRows}

\* the table the widget loads when it is constructed
markers ==
    [attributes |-> <<>>, metas |-> <<"Group">>,
     groupcol |-> <<"A", "A", "B">>]

\* QComboBox.itemText(index): the empty string for an index out of range
itemText(group_cb, index) ==
    IF 0 <= index /\ index < Len(group_cb) THEN group_cb[index + 1] ELSE ""

\* the distinct values of the group column, sorted
unique(groupcol) == SelectSeq(GroupValues, LAMBDA g : g \in Range(groupcol))

\* the rows of the source that belong to the group shown
group_rows(w) ==
    SelectSeq([i \in 1..Len(w.source.groupcol) |-> i],
              LAMBDA i : w.source.groupcol[i] = w.selected_group)

\* set_group_index, leaving selected_group as it was
set_group_index_keeps_text(w, group_index) ==
    [w EXCEPT !.group_index = group_index]

set_group_index(w, group_index) ==
    [w EXCEPT !.group_index = group_index,
              !.selected_group = itemText(w.group_cb, group_index)]

\* set_source, listing the table's columns when it has no metas
set_source_lists_columns(w, data) ==
    [w EXCEPT !.source = data,
              !.group_cb = IF data.metas # <<>> THEN unique(data.groupcol)
                           ELSE data.attributes]

set_source(w, data) ==
    LET w1 == [w EXCEPT !.source = data]
    IN IF data.metas # <<>>
       THEN LET w2 == [w1 EXCEPT !.group_cb = unique(data.groupcol)]
            IN set_group_index(
                   w2, min(IF w2.group_index < 0 THEN 0 ELSE w2.group_index,
                           Len(w2.group_cb) - 1))
       ELSE w1

\* the table set_selection sends as Genes: the selected rows of the group
genes_of(w) ==
    [rows |-> [j \in 1..Len(w.selected_rows) |->
                  group_rows(w)[w.selected_rows[j] + 1]]]

InitMarkers ==
    /\ mg = set_source([source |-> None, group_cb |-> <<>>,
                        group_index |-> -1, selected_group |-> "",
                        selected_rows |-> <<>>],
                       markers)
    /\ mg_genes = None
    /\ mg_last = [op |-> "__init__", metas |-> 0, count |-> 0, shown |-> ""]
    /\ Constructed(max_iter_default, refresh_rate_default, TRUE)
    /\ IdleNames

\* the lists of k distinct row indices below n, ascending
RowLists(n) ==
    {rows \in Lists(0..(n - 1), n) :
        /\ rows # <<>>
        /\ \A i \in 1..(Len(rows) - 1) : rows[i] < rows[i + 1]}

\* what mg_last records of a call: the operation, for set_source the number
\* of metas of the table, and the combo box as the call found it: its count
\* and the text of the group it showed
MgCall(op, metas) ==
    [op |-> op, metas |-> metas, count |-> Len(mg.group_cb),
     shown |-> itemText(mg.group_cb, mg.group_index)]

WidgetUnchanged == UNCHANGED <<self, Outputs, Inputs, sends, closed, created, last,
                        un_names, un_proposed, un_result>>

\* w.group_cb.clear()
Clear_group_cb ==
    /\ mg' = [mg EXCEPT !.group_cb = <<>>]
    /\ mg_last' = MgCall("clear", 0)
    /\ UNCHANGED mg_genes
    /\ WidgetUnchanged

Call_set_source ==
    \E data \in MarkerTables :
        /\ mg' = set_source(mg, data)
        /\ mg_last' = MgCall("set_source", Len(data.metas))
        /\ UNCHANGED mg_genes
        /\ WidgetUnchanged

\* selected_group is set to the text of the group shown and selected_rows to
\* rows of that group, and set_selection() is called
Call_set_selection ==
    /\ mg.source.metas # <<>>
    /\ LET w == [mg EXCEPT !.selected_group =
                               itemText(mg.group_cb, mg.group_index)]
       IN \E rows \in RowLists(Len(group_rows(w))) :
              LET w1 == [w EXCEPT !.selected_rows = rows]
              IN /\ mg' = w1
                 /\ mg_genes' = genes_of(w1)
    /\ mg_last' = MgCall("set_selection", 0)
    /\ WidgetUnchanged

Call_set_group_index ==
    \E group_index \in 0..Len(mg.group_cb) :
        /\ group_index # mg.group_index
        /\ mg' = set_group_index(mg, group_index)
        /\ mg_last' = MgCall("set_group_index", 0)
        /\ UNCHANGED mg_genes
        /\ WidgetUnchanged

NextMarkers ==
    \/ Clear_group_cb
    \/ Call_set_source
    \/ Call_set_selection
    \/ Call_set_group_index

SpecMarkers == InitMarkers /\ [][NextMarkers]_vars

\* C6: after selected_rows is set to k rows of the group shown and
\* set_selection() is called, Genes is a table of exactly k rows, each a row
\* of that group; and after set_group_index changed the group, selected_group
\* is not the text of the group shown before.
C6_RowSelection ==
    /\ mg_last.op = "set_selection"
           => /\ mg_genes # None
              /\ Len(mg_genes.rows) = Len(mg.selected_rows)
              /\ \A j \in 1..Len(mg_genes.rows) :
                     mg.source.groupcol[mg_genes.rows[j]] = mg.selected_group
    /\ (mg_last.op = "set_group_index" /\ mg_last.shown # "")
           => mg.selected_group # mg_last.shown

\* C6 witness: two rows of a group were selected and sent
C6_Witness ==
    /\ mg_last.op = "set_selection"
    /\ Len(mg.selected_rows) = 2
    /\ mg_genes # None

\* C7: the widget has a source right after construction, and set_source with
\* a table without meta attributes leaves the number of entries of the group
\* combo box as it was, zero when it was empty.
C7_SetSource ==
    /\ mg_last.op = "__init__" => mg.source # None
    /\ (mg_last.op = "set_source" /\ mg_last.metas = 0)
           => Len(mg.group_cb) = mg_last.count

\* C7 witness: set_source got a table without metas when the combo box was
\* empty
C7_Witness ==
    /\ mg_last.op = "set_source"
    /\ mg_last.metas = 0
    /\ mg_last.count = 0
    /\ mg.source.metas = <<>>

====
